---- MODULE Spec2Model ----
(***************************************************************************)
(* The Conan recipe class Containers of conanfile.py: the four hooks       *)
(* requirements(), generate(), build() and layout(), run one at a time by  *)
(* the package manager.  A hook is a straight line of statements; pc is    *)
(* the source line the running hook is at.  The calls that leave the       *)
(* recipe for the toolchain writer or the build tool (tc.generate(),       *)
(* cmake.configure(), cmake.build()) take two steps, the call and its      *)
(* return or its exception, so that what is in flight is part of the       *)
(* state.                                                                  *)
(***************************************************************************)
EXTENDS Naturals, Sequences, FiniteSets

VARIABLES
    settings,       \* self.settings: the values the package manager assigned
    reprofiled,     \* the package manager has applied a second profile
    pc,             \* "idle", or the line of conanfile.py the running hook is at
    hook,           \* the hook that is running ("none" when idle)
    tc,             \* generate()'s local tc: the CMakeToolchain object
    cmake,          \* build()'s local cmake: TRUE once CMake(self) is constructed
    inflight,       \* the external calls that have started and not yet ended
    requires,       \* the requirements declared on the recipe so far
    toolchainFile,  \* the toolchain on disk, as last written by tc.generate()
    configured,     \* what the last configure step was run with
    layouts,        \* how many times cmake_layout(self) was applied
    effect,         \* what the running hook invocation has done so far
    runs            \* the finished hook invocations, oldest first

vars == <<settings, reprofiled, pc, hook, tc, cmake, inflight, requires,
          toolchainFile, configured, layouts, effect, runs>>

\* How many hook invocations one behaviour holds.
MaxRuns == 3

----------------------------------------------------------------------------
\* The class attributes.

\* settings: tuple[str] = ("os", "compiler", "build_type", "arch")
settings_names == {"os", "compiler", "build_type", "arch"}

\* generators: tuple[str] = ("CMakeDeps",)
generators == {"CMakeDeps"}

\* The values a profile may give each declared setting.
SettingValues(n) ==
    CASE n = "os"         -> {"Linux", "Windows"}
      [] n = "compiler"   -> {"gcc", "clang"}
      [] n = "build_type" -> {"Release", "Debug"}
      [] n = "arch"       -> {"x86_64", "armv8"}

Profiles == {s \in [settings_names -> {"Linux", "Windows", "gcc", "clang",
                                       "Release", "Debug", "x86_64", "armv8"}] :
                \A n \in settings_names : s[n] \in SettingValues(n)}

Hooks == {"requirements", "generate", "build", "layout"}

\* The first statement of each hook.
Entry(h) ==
    CASE h = "requirements" -> "L9"
      [] h = "generate"     -> "L12"
      [] h = "build"        -> "L18"
      [] h = "layout"       -> "L23"

----------------------------------------------------------------------------
\* Values.

\* A dict as a set of <<key, value>> pairs; d[k] = v replaces the pair of k.
DictSet(d, k, v) == {p \in d : p[1] # k} \cup {<<k, v>>}

\* The generator a fresh CMakeToolchain holds before the recipe assigns one:
\* the library's choice, which the recipe does not control.
LibraryGenerators == {"Unix Makefiles", "Visual Studio 17 2022"}

NoToolchain == [made |-> FALSE, generator |-> "None", variables |-> {}]

NoFile == [exists |-> FALSE, generator |-> "None", variables |-> {}]

NotConfigured == [done |-> FALSE, toolchain |-> NoFile, args |-> {}]

NoEffect == [declared |-> <<>>, written |-> <<>>, events |-> <<>>, layouts |-> 0]

\* The file tc.generate() writes for a toolchain object.
FileOf(t) == [exists |-> TRUE, generator |-> t.generator, variables |-> t.variables]

Event(c, e, a) == [call |-> c, ev |-> e, args |-> a]

\* A regular requirement (self.requires) has build = FALSE; a tool
\* requirement (self.tool_requires) has build = TRUE.
Requirement(ref, isBuild) == [ref |-> ref, build |-> isBuild]

\* How a hook invocation ended: it returned, or the exception of call `by` left it.
Ok == [raised |-> FALSE, by |-> "none"]

Raised(c) == [raised |-> TRUE, by |-> c]

Finished(h, out, eff) ==
    [hook |-> h, settings |-> settings, outcome |-> out, effect |-> eff]

\* The hook returns or raises: its frame is dropped and the run is recorded.
Leave(out, eff) ==
    /\ runs' = Append(runs, Finished(hook, out, eff))
    /\ pc' = "idle"
    /\ hook' = "none"
    /\ tc' = NoToolchain
    /\ cmake' = FALSE
    /\ effect' = NoEffect

----------------------------------------------------------------------------
Init ==
    /\ settings \in Profiles
    /\ reprofiled = FALSE
    /\ pc = "idle"
    /\ hook = "none"
    /\ tc = NoToolchain
    /\ cmake = FALSE
    /\ inflight = <<>>
    /\ requires = <<>>
    /\ toolchainFile = NoFile
    /\ configured = NotConfigured
    /\ layouts = 0
    /\ effect = NoEffect
    /\ runs = <<>>

\* The package manager assigns the recipe's settings from another profile.
\* The recipe only declares the names (line 5) and never assigns a value.
\* Before the first hook another profile is another initial state, so the
\* step is taken between hooks.
SetProfile ==
    /\ pc = "idle"
    /\ ~reprofiled
    /\ runs # <<>>
    /\ Len(runs) < MaxRuns
    /\ \E s \in Profiles : s # settings /\ settings' = s
    /\ reprofiled' = TRUE
    /\ UNCHANGED <<pc, hook, tc, cmake, inflight, requires, toolchainFile,
                   configured, layouts, effect, runs>>

\* The package manager calls a hook of the recipe.
Invoke ==
    /\ pc = "idle"
    /\ Len(runs) < MaxRuns
    /\ \E h \in Hooks :
        /\ hook' = h
        /\ pc' = Entry(h)
    /\ effect' = NoEffect
    /\ UNCHANGED <<settings, reprofiled, tc, cmake, inflight, requires,
                   toolchainFile, configured, layouts, runs>>

----------------------------------------------------------------------------
\* def requirements(self): self.requires("catch2/3.11.0")

\* Variant: the hook declares nothing.
requirements_none ==
    /\ pc = "L9"
    /\ Leave(Ok, effect)
    /\ UNCHANGED <<settings, reprofiled, inflight, requires, toolchainFile,
                   configured, layouts>>

\* Variant: the version declared is chosen by the os setting.
requirements_by_os ==
    /\ pc = "L9"
    /\ LET ref == IF settings["os"] = "Windows" THEN "catch2/3.10.0"
                  ELSE "catch2/3.11.0"
       IN  /\ requires' = Append(requires, Requirement(ref, FALSE))
           /\ Leave(Ok, [effect EXCEPT
                           !.declared = Append(@, Requirement(ref, FALSE))])
    /\ UNCHANGED <<settings, reprofiled, inflight, toolchainFile, configured,
                   layouts>>

\* Variant: the hook declares only when the recipe holds no requirement yet.
requirements_once ==
    /\ pc = "L9"
    /\ IF requires = <<>>
       THEN /\ requires' = Append(requires, Requirement("catch2/3.11.0", FALSE))
            /\ Leave(Ok, [effect EXCEPT
                   !.declared = Append(@, Requirement("catch2/3.11.0", FALSE))])
       ELSE /\ requires' = requires
            /\ Leave(Ok, effect)
    /\ UNCHANGED <<settings, reprofiled, inflight, toolchainFile, configured,
                   layouts>>

\* Variant: the hook also declares a tool requirement.
requirements_with_tool ==
    /\ pc = "L9"
    /\ requires' = requires \o <<Requirement("catch2/3.11.0", FALSE),
                                 Requirement("cmake/3.31.0", TRUE)>>
    /\ Leave(Ok, [effect EXCEPT
                    !.declared = @ \o <<Requirement("catch2/3.11.0", FALSE),
                                        Requirement("cmake/3.31.0", TRUE)>>])
    /\ UNCHANGED <<settings, reprofiled, inflight, toolchainFile, configured,
                   layouts>>

requirements ==
    /\ pc = "L9"
    /\ requires' = Append(requires, Requirement("catch2/3.11.0", FALSE))
    /\ Leave(Ok, [effect EXCEPT
                      !.declared = Append(@, Requirement("catch2/3.11.0", FALSE))])
    /\ UNCHANGED <<settings, reprofiled, inflight, toolchainFile, configured,
                   layouts>>

----------------------------------------------------------------------------
\* def layout(self): cmake_layout(self)

\* Variant: the hook also writes a toolchain.
layout_writes_toolchain ==
    /\ pc = "L23"
    /\ layouts' = layouts + 1
    /\ toolchainFile' = [exists |-> TRUE, generator |-> "Ninja", variables |-> {}]
    /\ Leave(Ok, [effect EXCEPT !.layouts = @ + 1])
    /\ UNCHANGED <<settings, reprofiled, inflight, requires, configured>>

layout ==
    /\ pc = "L23"
    /\ layouts' = layouts + 1
    /\ Leave(Ok, [effect EXCEPT !.layouts = @ + 1])
    /\ UNCHANGED <<settings, reprofiled, inflight, requires, toolchainFile,
                   configured>>

----------------------------------------------------------------------------
\* def generate(self)

\* tc = CMakeToolchain(self)
generate_L12 ==
    /\ pc = "L12"
    /\ \E g \in LibraryGenerators :
        tc' = [made |-> TRUE, generator |-> g, variables |-> {}]
    /\ pc' = "L13"
    /\ UNCHANGED <<settings, reprofiled, hook, cmake, inflight, requires,
                   toolchainFile, configured, layouts, effect, runs>>

\* Variant: the generator is left as the library chose it.
generate_L13_unassigned ==
    /\ pc = "L13"
    /\ pc' = "L14"
    /\ UNCHANGED <<settings, reprofiled, hook, tc, cmake, inflight, requires,
                   toolchainFile, configured, layouts, effect, runs>>

\* tc.generator = "Ninja"
generate_L13 ==
    /\ pc = "L13"
    /\ tc' = [tc EXCEPT !.generator = "Ninja"]
    /\ pc' = "L14"
    /\ UNCHANGED <<settings, reprofiled, hook, cmake, inflight, requires,
                   toolchainFile, configured, layouts, effect, runs>>

\* tc.variables["CMAKE_CXX_STANDARD"] = "23"
generate_L14 ==
    /\ pc = "L14"
    /\ tc' = [tc EXCEPT !.variables = DictSet(@, "CMAKE_CXX_STANDARD", "23")]
    /\ pc' = "L15"
    /\ UNCHANGED <<settings, reprofiled, hook, cmake, inflight, requires,
                   toolchainFile, configured, layouts, effect, runs>>

\* tc.generate(): the call starts
generate_L15_call ==
    /\ pc = "L15"
    /\ inflight' = Append(inflight, "tc.generate")
    /\ effect' = [effect EXCEPT !.events = Append(@, Event("tc.generate", "start", {}))]
    /\ pc' = "L15_wait"
    /\ UNCHANGED <<settings, reprofiled, hook, tc, cmake, requires,
                   toolchainFile, configured, layouts, runs>>

\* tc.generate() returns: the toolchain is written, and generate() returns
generate_L15_return ==
    /\ pc = "L15_wait"
    /\ inflight' = SubSeq(inflight, 1, Len(inflight) - 1)
    /\ toolchainFile' = FileOf(tc)
    /\ Leave(Ok, [effect EXCEPT
                      !.written = Append(@, FileOf(tc)),
                      !.events = Append(@, Event("tc.generate", "return", {}))])
    /\ UNCHANGED <<settings, reprofiled, requires, configured, layouts>>

\* tc.generate() raises: nothing catches it, it leaves generate()
generate_L15_raise ==
    /\ pc = "L15_wait"
    /\ inflight' = SubSeq(inflight, 1, Len(inflight) - 1)
    /\ Leave(Raised("tc.generate"),
             [effect EXCEPT !.events = Append(@, Event("tc.generate", "raise", {}))])
    /\ UNCHANGED <<settings, reprofiled, requires, toolchainFile, configured,
                   layouts>>

----------------------------------------------------------------------------
\* def build(self)

\* Variant: the configure step is left out.
build_L18_skips_configure ==
    /\ pc = "L18"
    /\ cmake' = TRUE
    /\ pc' = "L20"
    /\ UNCHANGED <<settings, reprofiled, hook, tc, inflight, requires,
                   toolchainFile, configured, layouts, effect, runs>>

\* cmake = CMake(self)
build_L18 ==
    /\ pc = "L18"
    /\ cmake' = TRUE
    /\ pc' = "L19"
    /\ UNCHANGED <<settings, reprofiled, hook, tc, inflight, requires,
                   toolchainFile, configured, layouts, effect, runs>>

\* Variant: configure is started and not waited for.
build_L19_call_async ==
    /\ pc = "L19"
    /\ cmake
    /\ inflight' = Append(inflight, "configure")
    /\ configured' = [done |-> TRUE, toolchain |-> toolchainFile, args |-> {}]
    /\ effect' = [effect EXCEPT !.events = Append(@, Event("configure", "start", {}))]
    /\ pc' = "L20"
    /\ UNCHANGED <<settings, reprofiled, hook, tc, cmake, requires,
                   toolchainFile, layouts, runs>>

\* Variant: build() passes the language standard to configure itself.
build_L19_call_with_standard ==
    /\ pc = "L19"
    /\ cmake
    /\ inflight' = Append(inflight, "configure")
    /\ configured' = [done |-> TRUE, toolchain |-> toolchainFile,
                      args |-> {<<"CMAKE_CXX_STANDARD", "23">>}]
    /\ effect' = [effect EXCEPT !.events = Append(@,
                    Event("configure", "start", {<<"CMAKE_CXX_STANDARD", "23">>}))]
    /\ pc' = "L19_wait"
    /\ UNCHANGED <<settings, reprofiled, hook, tc, cmake, requires,
                   toolchainFile, layouts, runs>>

\* cmake.configure(): the call starts, with no argument, on the toolchain
\* that is on disk
build_L19_call ==
    /\ pc = "L19"
    /\ cmake
    /\ inflight' = Append(inflight, "configure")
    /\ configured' = [done |-> TRUE, toolchain |-> toolchainFile, args |-> {}]
    /\ effect' = [effect EXCEPT !.events = Append(@, Event("configure", "start", {}))]
    /\ pc' = "L19_wait"
    /\ UNCHANGED <<settings, reprofiled, hook, tc, cmake, requires,
                   toolchainFile, layouts, runs>>

\* cmake.configure() returns
build_L19_return ==
    /\ pc = "L19_wait"
    /\ inflight' = SubSeq(inflight, 1, Len(inflight) - 1)
    /\ effect' = [effect EXCEPT !.events = Append(@, Event("configure", "return", {}))]
    /\ pc' = "L20"
    /\ UNCHANGED <<settings, reprofiled, hook, tc, cmake, requires,
                   toolchainFile, configured, layouts, runs>>

\* Variant: the exception of configure is caught and build() goes on.
build_L19_raise_caught ==
    /\ pc = "L19_wait"
    /\ inflight' = SubSeq(inflight, 1, Len(inflight) - 1)
    /\ effect' = [effect EXCEPT !.events = Append(@, Event("configure", "raise", {}))]
    /\ pc' = "L20"
    /\ UNCHANGED <<settings, reprofiled, hook, tc, cmake, requires,
                   toolchainFile, configured, layouts, runs>>

\* cmake.configure() raises: nothing catches it, it leaves build()
build_L19_raise ==
    /\ pc = "L19_wait"
    /\ inflight' = SubSeq(inflight, 1, Len(inflight) - 1)
    /\ Leave(Raised("configure"),
             [effect EXCEPT !.events = Append(@, Event("configure", "raise", {}))])
    /\ UNCHANGED <<settings, reprofiled, requires, toolchainFile, configured,
                   layouts>>

\* cmake.build(): the call starts, with no argument
build_L20_call ==
    /\ pc = "L20"
    /\ cmake
    /\ inflight' = Append(inflight, "build")
    /\ effect' = [effect EXCEPT !.events = Append(@, Event("build", "start", {}))]
    /\ pc' = "L20_wait"
    /\ UNCHANGED <<settings, reprofiled, hook, tc, cmake, requires,
                   toolchainFile, configured, layouts, runs>>

\* cmake.build() returns, and build() returns
build_L20_return ==
    /\ pc = "L20_wait"
    /\ inflight' = SubSeq(inflight, 1, Len(inflight) - 1)
    /\ Leave(Ok, [effect EXCEPT !.events = Append(@, Event("build", "return", {}))])
    /\ UNCHANGED <<settings, reprofiled, requires, toolchainFile, configured,
                   layouts>>

\* cmake.build() raises: nothing catches it, it leaves build()
build_L20_raise ==
    /\ pc = "L20_wait"
    /\ inflight' = SubSeq(inflight, 1, Len(inflight) - 1)
    /\ Leave(Raised("build"),
             [effect EXCEPT !.events = Append(@, Event("build", "raise", {}))])
    /\ UNCHANGED <<settings, reprofiled, requires, toolchainFile, configured,
                   layouts>>

----------------------------------------------------------------------------
Next ==
    \/ SetProfile
    \/ Invoke
    \/ requirements
    \/ layout
    \/ generate_L12
    \/ generate_L13
    \/ generate_L14
    \/ generate_L15_call
    \/ generate_L15_return
    \/ generate_L15_raise
    \/ build_L18
    \/ build_L19_call
    \/ build_L19_return
    \/ build_L19_raise
    \/ build_L20_call
    \/ build_L20_return
    \/ build_L20_raise

Spec == Init /\ [][Next]_vars

----------------------------------------------------------------------------
\* What the claims speak of.

Catch2 == Requirement("catch2/3.11.0", FALSE)

\* The toolchain generate() is to write.
NinjaCxx23 == [exists |-> TRUE, generator |-> "Ninja",
               variables |-> {<<"CMAKE_CXX_STANDARD", "23">>}]

Start(c) == Event(c, "start", {})
Return(c) == Event(c, "return", {})
Raise(c) == Event(c, "raise", {})

\* How many events of a sequence equal e.
Count(evs, e) == Cardinality({k \in DOMAIN evs : evs[k] = e})

\* Every build step of evs follows a configure step that has returned.
ConfigureReturnedFirst(evs) ==
    \A k \in DOMAIN evs :
        (evs[k].call = "build" /\ evs[k].ev = "start")
            => \E j \in 1..(k - 1) : evs[j].call = "configure" /\ evs[j].ev = "return"

\* A generate() run that returned is among the finished runs.
GenerateCompleted ==
    \E i \in DOMAIN runs : runs[i].hook = "generate" /\ runs[i].outcome = Ok

\* C1: in every run of build() the build step is invoked only after a
\* configure step of the same run has returned, and a build() run that has
\* returned invoked configure exactly once and build exactly once.
C1_ConfigureThenBuild ==
    /\ ConfigureReturnedFirst(effect.events)
    /\ \A i \in DOMAIN runs :
        runs[i].hook = "build" =>
            /\ ConfigureReturnedFirst(runs[i].effect.events)
            /\ runs[i].outcome = Ok =>
                /\ Count(runs[i].effect.events, Start("configure")) = 1
                /\ Count(runs[i].effect.events, Start("build")) = 1
                /\ Len(runs[i].effect.events) = 4

C1_Witness ==
    \E i \in DOMAIN runs : runs[i].hook = "build" /\ runs[i].outcome = Ok

\* C2: whenever generate() writes the toolchain, the toolchain object has
\* generator "Ninja" and CMAKE_CXX_STANDARD "23": while tc.generate() is in
\* flight tc holds both, and every toolchain written holds both.
C2_ToolchainWrittenIsNinjaCxx23 ==
    /\ pc = "L15_wait" =>
        /\ tc.generator = "Ninja"
        /\ {p \in tc.variables : p[1] = "CMAKE_CXX_STANDARD"}
             = {<<"CMAKE_CXX_STANDARD", "23">>}
    /\ toolchainFile.exists =>
        /\ toolchainFile.generator = "Ninja"
        /\ {p \in toolchainFile.variables : p[1] = "CMAKE_CXX_STANDARD"}
             = {<<"CMAKE_CXX_STANDARD", "23">>}
    /\ \A i \in DOMAIN runs : \A k \in DOMAIN runs[i].effect.written :
        /\ runs[i].effect.written[k].generator = "Ninja"
        /\ <<"CMAKE_CXX_STANDARD", "23">> \in runs[i].effect.written[k].variables

C2_Witness ==
    /\ toolchainFile.exists
    /\ \E i \in DOMAIN runs : runs[i].hook = "generate" /\ runs[i].outcome = Ok

\* A requirements() run is among the finished runs.
DeclarationHooksRan == \E i \in DOMAIN runs : runs[i].hook = "requirements"

\* C3 (as stated): once the declaration hooks have run, the declared set
\* holds the catch2 dependency and a build-tool requirement.
C3_Original ==
    DeclarationHooksRan =>
        /\ \E k \in DOMAIN requires : requires[k] = Catch2
        /\ \E k \in DOMAIN requires : requires[k].build

\* C3 (amended): once the declaration hooks have run, the declared set holds
\* the catch2 dependency and no build-tool requirement; the build system is
\* named only by the generators attribute, which is CMakeDeps.
C3_Amended ==
    DeclarationHooksRan =>
        /\ \E k \in DOMAIN requires : requires[k] = Catch2
        /\ \A k \in DOMAIN requires : ~requires[k].build
        /\ generators = {"CMakeDeps"}

C3_Witness == DeclarationHooksRan /\ Len(requires) >= 1

\* C4: a failure is the outcome of its hook, unchanged and unhandled: an
\* exception event is the last event of its run and the run's outcome is that
\* exception; the failed call was made once (no retry); after a failed
\* configure no build step is invoked; a failed tc.generate() wrote nothing.
\* A hook that is still running has seen no exception.
C4_FailuresLeaveTheHook ==
    /\ \A k \in DOMAIN effect.events : effect.events[k].ev # "raise"
    /\ \A i \in DOMAIN runs :
        LET evs == runs[i].effect.events IN
        /\ \A k \in DOMAIN evs :
            evs[k].ev = "raise" =>
                /\ k = Len(evs)
                /\ runs[i].outcome = Raised(evs[k].call)
                /\ Count(evs, Start(evs[k].call)) = 1
        /\ runs[i].outcome.raised =>
            /\ Len(evs) >= 1
            /\ evs[Len(evs)] = Raise(runs[i].outcome.by)
        /\ runs[i].outcome = Raised("configure") =>
            /\ runs[i].hook = "build"
            /\ evs = <<Start("configure"), Raise("configure")>>
        /\ runs[i].outcome = Raised("build") =>
            /\ runs[i].hook = "build"
            /\ evs = <<Start("configure"), Return("configure"),
                       Start("build"), Raise("build")>>
        /\ runs[i].outcome = Raised("tc.generate") =>
            /\ runs[i].hook = "generate"
            /\ evs = <<Start("tc.generate"), Raise("tc.generate")>>
            /\ runs[i].effect.written = <<>>

C4_Witness ==
    /\ \E i \in DOMAIN runs : runs[i].outcome = Raised("configure")
    /\ \E i \in DOMAIN runs : runs[i].outcome = Raised("build")
    /\ \E i \in DOMAIN runs : runs[i].outcome = Raised("tc.generate")

\* C5: the external calls are synchronous: at most one is in flight, it is
\* the one the hook waits at, and a call starts only after the call before it
\* in the same run has returned.
C5_OneCallInFlight ==
    /\ Len(inflight) <= 1
    /\ inflight # <<>> => pc \in {"L15_wait", "L19_wait", "L20_wait"}
    /\ pc = "L19_wait" => inflight = <<"configure">>
    /\ pc = "L20_wait" => inflight = <<"build">>
    /\ pc = "L15_wait" => inflight = <<"tc.generate">>
    /\ \A k \in DOMAIN effect.events :
        (effect.events[k].ev = "start" /\ k > 1)
            => effect.events[k - 1].ev = "return"

C5_Witness ==
    /\ pc = "L20_wait"
    /\ inflight = <<"build">>
    /\ effect.events = <<Start("configure"), Return("configure"), Start("build")>>

\* C6: two runs of a hook that differ in the settings and in nothing else
\* (the same hook, the external calls ending the same way) declare the same
\* requirement, write the same toolchain and issue the same steps.
C6_SettingsDoNotMatter ==
    \A i, j \in DOMAIN runs :
        (/\ runs[i].hook = runs[j].hook
         /\ runs[i].outcome = runs[j].outcome
         /\ runs[i].settings # runs[j].settings)
            => runs[i].effect = runs[j].effect

C6_Witness ==
    \E i, j \in DOMAIN runs :
        /\ runs[i].hook = "generate" /\ runs[j].hook = "generate"
        /\ runs[i].outcome = Ok /\ runs[j].outcome = Ok
        /\ \A n \in settings_names : runs[i].settings[n] # runs[j].settings[n]
        /\ \E k \in DOMAIN runs : runs[k].hook = "build" /\ runs[k].outcome = Ok

\* C7: no state of the recipe persists between hook invocations: a run does
\* what the same hook does when it is the first invocation of all, whatever
\* ran before it and however often (the external calls ending the same way).
C7_NoPersistedState ==
    \A i \in DOMAIN runs :
        (/\ runs[i].hook = runs[1].hook
         /\ runs[i].outcome = runs[1].outcome)
            => runs[i].effect = runs[1].effect

C7_Witness ==
    /\ Len(runs) >= 3
    /\ runs[1].hook = "requirements" /\ runs[3].hook = "requirements"
    /\ runs[2].hook = "generate" /\ runs[2].outcome = Ok

\* C8: a run of requirements() declares the one requirement catch2/3.11.0 and
\* does nothing else: no toolchain written, no step configured or in flight,
\* no layout applied.
C8_RequirementsFrame ==
    [][pc = "L9" =>
        /\ requires' = Append(requires, Catch2)
        /\ UNCHANGED <<settings, toolchainFile, configured, inflight, layouts>>
        /\ runs' = Append(runs, [hook |-> "requirements", settings |-> settings,
                                 outcome |-> Ok,
                                 effect |-> [declared |-> <<Catch2>>,
                                             written |-> <<>>, events |-> <<>>,
                                             layouts |-> 0]])]_vars

C8_Witness ==
    \E i \in DOMAIN runs :
        /\ runs[i].hook = "requirements"
        /\ Len(requires) = 2
        /\ toolchainFile.exists

\* C9: a run of layout() applies the layout and nothing else: no requirement
\* declared, the toolchain object and the toolchain on disk unchanged, no
\* configure or build step invoked.
C9_LayoutFrame ==
    [][pc = "L23" =>
        /\ layouts' = layouts + 1
        /\ UNCHANGED <<settings, requires, tc, toolchainFile, configured, inflight>>
        /\ runs'[Len(runs')].effect.events = <<>>
        /\ runs'[Len(runs')].effect.declared = <<>>
        /\ runs'[Len(runs')].effect.written = <<>>]_vars

C9_Witness ==
    /\ \E i \in DOMAIN runs : runs[i].hook = "layout"
    /\ layouts >= 1
    /\ toolchainFile.exists
    /\ requires # <<>>

\* C10: build() passes configure no generator and no language standard of its
\* own; configure sees Ninja and CMAKE_CXX_STANDARD 23 only through the
\* toolchain a completed generate() wrote, so with no completed generate()
\* before it configure runs on no toolchain of the recipe.
C10_ValuesOnlyThroughGenerate ==
    /\ configured.args = {}
    /\ \A k \in DOMAIN effect.events : effect.events[k].args = {}
    /\ \A i \in DOMAIN runs : \A k \in DOMAIN runs[i].effect.events :
        runs[i].effect.events[k].args = {}
    /\ (configured.done /\ ~GenerateCompleted) => configured.toolchain = NoFile
    /\ (configured.done /\ configured.toolchain # NoFile) =>
        /\ GenerateCompleted
        /\ configured.toolchain = NinjaCxx23

C10_Witness ==
    /\ configured.done
    /\ configured.toolchain = NoFile
    /\ ~GenerateCompleted
    /\ \E i \in DOMAIN runs : runs[i].hook = "build" /\ runs[i].outcome = Ok

====
